---- MODULE Spec2Model ----
(***************************************************************************)
(* The transcription workflow of speech_to_text.py: the file dialog, the   *)
(* SpeechToText instance, the blocking call to the remote transcription    *)
(* service, the formatting of the result and the two outputs (a file in    *)
(* the Transcription folder, the system clipboard).                        *)
(*                                                                         *)
(* One run is one call of main(), of SpeechToText.quick_transcribe() or of *)
(* SpeechToText(...).speech_to_text().  The remote service, the dialog,    *)
(* the clock, the environment and the clipboard are the environment of the *)
(* program; their answers are chosen nondeterministically.                 *)
(***************************************************************************)
EXTENDS Integers, Sequences, FiniteSets, TLC

VARIABLES
    pc,            \* position of the run: idle, constructed, transcribed, done
    call,          \* the entry point of the run and its arguments
    stt,           \* the fields of the SpeechToText instance (self)
    request,       \* the transcription request last sent to the service
    apiKeyEnv,     \* os.getenv("ASSEMBLYAI_API_KEY") after load_dotenv()
    clock,         \* wall clock, in ticks
    folderExists,  \* ~/Transcription exists
    files,         \* the files of ~/Transcription: name -> lines
    clipboard,     \* the system clipboard
    serviceCalls,  \* calls to the remote service made by this run
    fileWrites,    \* files opened for writing by this run
    clipWrites,    \* pyperclip.copy calls that succeeded in this run
    outcome,       \* running, returned, raised or exit1 (sys.exit(1))
    error,         \* the exception that ended the run, or none
    sentencesReply,\* what get_sentences() last returned
    saved,         \* the save_to_text_file calls so far: file name, completed
    runs           \* runs finished so far

vars == <<pc, call, stt, request, apiKeyEnv, clock, folderExists, files,
          clipboard, serviceCalls, fileWrites, clipWrites, outcome, error,
          sentencesReply, saved, runs>>

-----------------------------------------------------------------------------
(* Bounds of the model *)

MaxItems == 2
MaxClock == 2
TicksPerSecond == 2
MaxRuns == 2

-----------------------------------------------------------------------------
(* Values *)

None == "None"

ExistingPaths == {"/audio/talk.mp3"}
Paths == ExistingPaths \cup {"/audio/gone.mp3"}

\* Class defaults, lines 28-33.
DEFAULT_LANGUAGE == "ru"
DEFAULT_SPEAKER_LABELS == TRUE
DEFAULT_SUMMARIZATION == FALSE
DEFAULT_SUMMARIZATION_MODEL == "informative"
DEFAULT_SUMMARIZATION_TYPE == "paragraphs"
DEFAULT_SUMMARIZATION_QUESTION == None

Languages == {DEFAULT_LANGUAGE, "en"}
SummaryModels == {DEFAULT_SUMMARIZATION_MODEL, "conversational"}
SummaryTypes == {DEFAULT_SUMMARIZATION_TYPE, "bullets"}
Questions == {DEFAULT_SUMMARIZATION_QUESTION, "who spoke?"}
ApiKeys == {None, "key"}

Texts == {"hello.", "bye."}
Sentences == {[text |-> t] : t \in Texts}
Utterances == {[speaker |-> "A", text |-> "hello."], [speaker |-> "B", text |-> "bye."]}
Summaries == {None, "gist"}

SeqsUpTo(S, n) == UNION {[1..k -> S] : k \in 0..n}

\* An optional sequence: Python's None or a list.
NoSeq == [none |-> TRUE, items |-> <<>>]
SomeSeq(s) == [none |-> FALSE, items |-> s]

NoTranscript == [status |-> None, utterances |-> NoSeq, summary |-> None]
NoRequest == [sent |-> FALSE]

-----------------------------------------------------------------------------
(* SpeechToText.__init__ *)

\* os.path.exists(path_to_file)
Exists(path) == path \in ExistingPaths

\* Path(path_to_file).stem: the last component without its suffix.
Stem(path) ==
    CASE path = "/audio/talk.mp3" -> "talk"
      [] path = "/audio/gone.mp3" -> "gone"
      [] OTHER -> ""

Blank ==
    [path_to_file |-> None, file_name |-> None, single_speaker |-> FALSE,
     language |-> None, speaker_labels |-> FALSE, summarization |-> FALSE,
     summarization_model |-> None, summarization_type |-> None,
     summarization_question |-> None,
     transcriber_result |-> NoSeq, summarization_result |-> None,
     transcript |-> NoTranscript]

NewInstance(path, language, single_speaker, speaker_labels, summarization, model, type, question) ==
    [path_to_file |-> path, file_name |-> Stem(path),
     single_speaker |-> single_speaker, language |-> language,
     speaker_labels |-> speaker_labels, summarization |-> summarization,
     summarization_model |-> model, summarization_type |-> type,
     summarization_question |-> question,
     transcriber_result |-> NoSeq, summarization_result |-> None,
     transcript |-> NoTranscript]

\* The constructor's check, lines 61-63: FileNotFoundError.
InitRaisesNever(path) == FALSE

InitRaises(path) == ~Exists(path)

-----------------------------------------------------------------------------
(* SpeechToText.configuration *)

\* api_key = api_key or os.getenv("ASSEMBLYAI_API_KEY")
ResolveApiKey(api_key, env) == IF api_key \notin {None, ""} THEN api_key ELSE env

ConfigurationRaisesNever(api_key, env) == FALSE

\* if not api_key: raise RuntimeError
ConfigurationRaises(api_key, env) == ResolveApiKey(api_key, env) \in {None, ""}

\* config_params, lines 101-110: the keyword arguments of TranscriptionConfig.
Configuration(self) ==
    LET base == [language_code |-> self.language,
                 speaker_labels |-> self.speaker_labels]
    IN  IF self.summarization
        THEN [summarization |-> TRUE,
              summary_model |-> self.summarization_model,
              summary_type |-> self.summarization_type] @@ base
        ELSE base

-----------------------------------------------------------------------------
(* The remote service *)

\* What transcriber.transcribe(path, config) may return: a transcript with a
\* status; a completed one carries utterances when speaker labels were asked
\* for and may carry a summary when summarization was asked for.
ServiceResponses(config) ==
    {[status |-> "error", utterances |-> NoSeq, summary |-> None]}
    \cup
    {[status |-> "completed", utterances |-> u, summary |-> s] :
        u \in (IF config.speaker_labels
                 THEN {SomeSeq(q) : q \in SeqsUpTo(Utterances, MaxItems)}
                 ELSE {NoSeq}),
        s \in (IF "summarization" \in DOMAIN config THEN Summaries ELSE {None})}

\* What transcript.get_sentences() may return.
SentenceResponses == SeqsUpTo(Sentences, MaxItems)

TranscribeRaisesNever(transcript) == FALSE

\* if self.transcript.status == aai.TranscriptStatus.error: raise RuntimeError
TranscribeRaises(transcript) == transcript.status = "error"

-----------------------------------------------------------------------------
(* Formatting *)

RECURSIVE Join(_, _)
\* sep.join(strs)
Join(strs, sep) ==
    IF Len(strs) = 0 THEN ""
    ELSE IF Len(strs) = 1 THEN strs[1]
    ELSE strs[1] \o sep \o Join(Tail(strs), sep)

Rule == "============================================================"

\* datetime.now().strftime("%Y%m%d_%H%M%S"): the clock cut to whole seconds.
Timestamp(now) == ToString(now \div TicksPerSecond)

\* output_filename, line 178.
OutputFilename(self, now) == self.file_name \o "_" \o Timestamp(now) \o ".txt"

ModeName(self) == IF self.single_speaker THEN "Single speaker" ELSE "Multiple speakers"

\* Lines 184-198: banner, metadata and the banner of the content section.
\* The date line reads the clock like the file name does, to the second.
HeaderLines(self, now) ==
    << Rule, "TRANSCRIPTION", Rule, "",
       "Source file: " \o self.path_to_file,
       "Transcription date: " \o Timestamp(now),
       "Language: " \o self.language,
       "Mode: " \o ModeName(self), "",
       Rule, "TRANSCRIPTION CONTENT", Rule, "" >>

SpeakerLine(sentence) == "Speaker " \o sentence.speaker \o ": " \o sentence.text

ContentLineNoSpeaker(self, sentence) == sentence.text

\* Lines 201-206: the line written for one item of the result.
ContentLine(self, sentence) ==
    IF self.single_speaker THEN sentence.text ELSE SpeakerLine(sentence)

ContentLines(self, items) == [i \in 1..Len(items) |-> ContentLine(self, items[i])]

\* Lines 210-221: the summary, if any, and the footer.  str(summary) is
\* written without a line break, which the footer's first "\n" supplies.
TailLines(self) ==
    (IF self.summarization_result # None
        THEN << "", Rule, "SUMMARY", Rule, "", self.summarization_result, "" >>
        ELSE << "", "" >>)
    \o << Rule, "End of transcription", Rule >>

\* The file save_to_text_file leaves behind.  Iterating None raises a
\* TypeError after the header was written; the with block closes the file.
SavedLines(self, now) ==
    IF self.transcriber_result.none
    THEN HeaderLines(self, now)
    ELSE HeaderLines(self, now) \o ContentLines(self, self.transcriber_result.items)
         \o TailLines(self)

SaveRaises(self) == self.transcriber_result.none

\* text_to_copy, lines 234-238.
ClipboardText(self) ==
    IF self.single_speaker
    THEN Join([i \in 1..Len(self.transcriber_result.items) |->
                  self.transcriber_result.items[i].text], " ")
    ELSE Join([i \in 1..Len(self.transcriber_result.items) |->
                  SpeakerLine(self.transcriber_result.items[i])], " ")

ResultSequenceUtterances(self, sentences, transcript) == transcript.utterances

\* Lines 150-155 and 281-284: the sequence the mode selects.
ResultSequence(self, sentences, transcript) ==
    IF self.single_speaker THEN SomeSeq(sentences) ELSE transcript.utterances

-----------------------------------------------------------------------------
(* gui_select_file.select_file and the outputs *)

\* filedialog.askopenfile(...) returns None when the dialog is cancelled and
\* the opened file otherwise; select_file reads .name of what it returns.
DialogAnswers == {None} \cup Paths

SelectFileRaises(answer) == answer = None

\* main, line 308: if not path_to_file
NoFileSelected(path_to_file) == path_to_file \in {None, ""}

\* How an exception leaves the entry point: main catches it and calls
\* sys.exit(1); speech_to_text and quick_transcribe let it propagate.
Raise(entry, exc) ==
    /\ outcome' = (IF entry = "main" THEN "exit1" ELSE "raised")
    /\ error' = exc
    /\ pc' = "done"

Return ==
    /\ outcome' = "returned"
    /\ error' = "none"
    /\ pc' = "done"

\* save_to_text_file: the folder is created if absent, the file is opened
\* for writing under its timestamped name and written.
SaveToTextFile(self) ==
    /\ folderExists' = TRUE
    /\ files' = (OutputFilename(self, clock) :> SavedLines(self, clock)) @@ files
    /\ fileWrites' = fileWrites + 1
    /\ saved' = Append(saved, [name |-> OutputFilename(self, clock),
                                completed |-> ~SaveRaises(self)])

NoSave == UNCHANGED <<folderExists, files, fileWrites, saved>>

\* copy_to_clipboard: any exception (the result is None, no clipboard
\* mechanism) is logged and swallowed.
CopyToClipboard(self, clipOk) ==
    IF ~self.transcriber_result.none /\ clipOk
    THEN /\ clipboard' = ClipboardText(self)
         /\ clipWrites' = clipWrites + 1
    ELSE UNCHANGED <<clipboard, clipWrites>>

NoCopy == UNCHANGED <<clipboard, clipWrites>>

-----------------------------------------------------------------------------
(* The state machine *)

NoCall == [entry |-> "none", dialog |-> "none", path |-> None, api_key |-> None,
           save_file |-> FALSE, copy_to_clip |-> FALSE]

Init ==
    /\ pc = "idle"
    /\ call = NoCall
    /\ stt = Blank
    /\ request = NoRequest
    /\ apiKeyEnv \in ApiKeys
    /\ clock = 0
    /\ folderExists = FALSE
    /\ files = <<>>
    /\ clipboard = ""
    /\ serviceCalls = 0
    /\ fileWrites = 0
    /\ clipWrites = 0
    /\ outcome = "running"
    /\ error = "none"
    /\ sentencesReply = NoSeq
    /\ saved = <<>>
    /\ runs = 0

Outputs == <<folderExists, files, clipboard, fileWrites, clipWrites, saved>>

\* The constructor, called by every entry point.
Construct(entry, self) ==
    IF InitRaises(self.path_to_file)
    THEN /\ Raise(entry, "FileNotFoundError")
         /\ stt' = stt
    ELSE /\ stt' = self
         /\ pc' = "constructed"
         /\ UNCHANGED <<outcome, error>>

\* main(), lines 305-315: the dialog, then SpeechToText(path_to_file).
Main(answer) ==
    /\ pc = "idle"
    /\ call' = [NoCall EXCEPT !.entry = "main",
                   !.dialog = (IF answer = None THEN "cancelled" ELSE "chosen"),
                   !.path = answer]
    /\ IF SelectFileRaises(answer)
       THEN Raise("main", "AttributeError") /\ stt' = stt
       ELSE IF NoFileSelected(answer)
       THEN Return /\ stt' = stt
       ELSE Construct("main",
                NewInstance(answer, DEFAULT_LANGUAGE, FALSE, DEFAULT_SPEAKER_LABELS,
                    DEFAULT_SUMMARIZATION, DEFAULT_SUMMARIZATION_MODEL,
                    DEFAULT_SUMMARIZATION_TYPE, DEFAULT_SUMMARIZATION_QUESTION))
    /\ UNCHANGED <<request, sentencesReply, apiKeyEnv, clock, serviceCalls, runs>>
    /\ UNCHANGED Outputs

\* quick_transcribe, lines 270-275.
QuickTranscribe(path, api_key, language, single_speaker, save_file, copy_to_clip) ==
    /\ pc = "idle"
    /\ call' = [NoCall EXCEPT !.entry = "quick_transcribe", !.path = path,
                   !.api_key = api_key,
                   !.save_file = save_file, !.copy_to_clip = copy_to_clip]
    /\ Construct("quick_transcribe",
           NewInstance(path, language, single_speaker, DEFAULT_SPEAKER_LABELS,
               DEFAULT_SUMMARIZATION, DEFAULT_SUMMARIZATION_MODEL,
               DEFAULT_SUMMARIZATION_TYPE, DEFAULT_SUMMARIZATION_QUESTION))
    /\ UNCHANGED <<request, sentencesReply, apiKeyEnv, clock, serviceCalls, runs>>
    /\ UNCHANGED Outputs

\* A caller's SpeechToText(...) followed by speech_to_text().
SpeechToTextCall(self) ==
    /\ pc = "idle"
    /\ call' = [NoCall EXCEPT !.entry = "speech_to_text", !.path = self.path_to_file]
    /\ Construct("speech_to_text", self)
    /\ UNCHANGED <<request, sentencesReply, apiKeyEnv, clock, serviceCalls, runs>>
    /\ UNCHANGED Outputs

\* transcribe, lines 120-142: configuration(), the blocking call, the check
\* of the status.
Transcribe ==
    /\ pc = "constructed"
    /\ IF ConfigurationRaises(None, apiKeyEnv)
       THEN /\ Raise(call.entry, "RuntimeError")
            /\ UNCHANGED <<stt, request, serviceCalls>>
       ELSE \E transcript \in ServiceResponses(Configuration(stt)) :
            /\ request' = [sent |-> TRUE, audio |-> stt.path_to_file,
                           config |-> Configuration(stt)]
            /\ serviceCalls' = serviceCalls + 1
            /\ stt' = [stt EXCEPT !.transcript = transcript]
            /\ IF TranscribeRaises(transcript)
               THEN Raise(call.entry, "RuntimeError")
               ELSE pc' = "transcribed" /\ UNCHANGED <<outcome, error>>
    /\ UNCHANGED <<call, sentencesReply, apiKeyEnv, clock, runs>>
    /\ UNCHANGED Outputs

\* The sentences get_sentences() fetches, one more call to the service.
SentencesFor(self) == IF self.single_speaker THEN SentenceResponses ELSE {<<>>}

SentenceCalls(self) == IF self.single_speaker THEN 1 ELSE 0

\* process_transcription, lines 148-166, with the save_to_text_file it ends in.
ProcessTranscription ==
    /\ pc = "transcribed"
    /\ call.entry \in {"main", "speech_to_text"}
    /\ \E sentences \in SentencesFor(stt) :
        LET self == [stt EXCEPT
                       !.transcriber_result = ResultSequence(stt, sentences, stt.transcript),
                       !.summarization_result =
                           IF stt.summarization /\ stt.transcript.summary # None
                           THEN stt.transcript.summary ELSE @]
        IN  /\ stt' = self
            /\ serviceCalls' = serviceCalls + SentenceCalls(stt)
            /\ sentencesReply' = (IF stt.single_speaker THEN SomeSeq(sentences) ELSE sentencesReply)
            /\ SaveToTextFile(self)
            /\ IF SaveRaises(self) THEN Raise(call.entry, "TypeError") ELSE Return
    /\ NoCopy
    /\ UNCHANGED <<call, request, apiKeyEnv, clock, runs>>

\* quick_transcribe, lines 280-295.
QuickResult ==
    /\ pc = "transcribed"
    /\ call.entry = "quick_transcribe"
    /\ \E sentences \in SentencesFor(stt), clipOk \in BOOLEAN :
        LET result == ResultSequence(stt, sentences, stt.transcript)
            self == [stt EXCEPT !.transcriber_result = result]
        IN  /\ serviceCalls' = serviceCalls + SentenceCalls(stt)
            /\ sentencesReply' = (IF stt.single_speaker THEN SomeSeq(sentences) ELSE sentencesReply)
            /\ stt' = IF call.save_file \/ call.copy_to_clip THEN self ELSE stt
            /\ IF call.save_file THEN SaveToTextFile(self) ELSE NoSave
            /\ IF call.save_file /\ SaveRaises(self)
               THEN Raise(call.entry, "TypeError") /\ NoCopy
               ELSE /\ Return
                    /\ IF call.copy_to_clip THEN CopyToClipboard(self, clipOk) ELSE NoCopy
    /\ UNCHANGED <<call, request, apiKeyEnv, clock, runs>>

\* Time passes.
Tick ==
    /\ clock < MaxClock
    /\ clock' = clock + 1
    /\ UNCHANGED <<pc, call, stt, request, sentencesReply, apiKeyEnv, serviceCalls,
                   outcome, error, runs>>
    /\ UNCHANGED Outputs

\* The process ends; the next run starts from a fresh instance.  The folder,
\* its files and the clipboard stay.
Finish ==
    /\ pc = "done"
    /\ runs < MaxRuns
    /\ runs' = runs + 1
    /\ pc' = "idle"
    /\ call' = NoCall
    /\ stt' = Blank
    /\ request' = NoRequest
    /\ sentencesReply' = NoSeq
    /\ serviceCalls' = 0
    /\ fileWrites' = 0
    /\ clipWrites' = 0
    /\ outcome' = "running"
    /\ error' = "none"
    /\ UNCHANGED <<apiKeyEnv, clock, folderExists, files, clipboard, saved>>

Instances ==
    {NewInstance(p, l, ss, sl, su, m, t, q) :
        p \in Paths, l \in Languages, ss \in BOOLEAN, sl \in BOOLEAN,
        su \in BOOLEAN, m \in SummaryModels, t \in SummaryTypes, q \in Questions}

Next ==
    \/ \E answer \in DialogAnswers : Main(answer)
    \/ \E p \in Paths, k \in {None, "key"}, l \in Languages, ss \in BOOLEAN,
          sf \in BOOLEAN, cc \in BOOLEAN : QuickTranscribe(p, k, l, ss, sf, cc)
    \/ \E self \in Instances : SpeechToTextCall(self)
    \/ Transcribe
    \/ ProcessTranscription
    \/ QuickResult
    \/ Tick

\* One run of any entry point, from a machine with no Transcription folder.
Spec == Init /\ [][Next]_vars

\* The script run again and again: each run is main(), the only entry point
\* the script itself calls (line 326).
NextRepeat ==
    \/ \E answer \in DialogAnswers : Main(answer)
    \/ Transcribe
    \/ ProcessTranscription
    \/ Tick
    \/ Finish

SpecRepeat == Init /\ [][NextRepeat]_vars

-----------------------------------------------------------------------------
(* Properties *)

\* The save_to_text_file call this run made last.
LastSave == saved[Len(saved)]

SavedThisRun == fileWrites > 0 /\ saved # <<>>

NothingWritten ==
    /\ fileWrites = 0
    /\ clipWrites = 0
    /\ DOMAIN files = {}
    /\ clipboard = ""
    /\ saved = <<>>

\* The content section of a written file: the lines after the banner
\* TRANSCRIPTION CONTENT (a rule and an empty line follow it) up to the next
\* empty line.
ContentSection(lines) ==
    LET banner == CHOOSE b \in 1..Len(lines) : lines[b] = "TRANSCRIPTION CONTENT"
        first == banner + 3
        stop == CHOOSE e \in first..Len(lines) :
                    /\ lines[e] = ""
                    /\ \A k \in first..(e - 1) : lines[k] # ""
    IN  SubSeq(lines, first, stop - 1)

\* C1: when the service returns a transcript with the error status, the run
\* ends in transcribe with a RuntimeError (sys.exit(1) in main) and neither a
\* file nor the clipboard is written, whichever entry point was called.
C1_ErrorStatusWritesNothing ==
    stt.transcript.status = "error" =>
        /\ pc = "done"
        /\ error = "RuntimeError"
        /\ outcome = (IF call.entry = "main" THEN "exit1" ELSE "raised")
        /\ NothingWritten
        /\ ~folderExists

C1_Witness ==
    /\ stt.transcript.status = "error"
    /\ call.entry = "quick_transcribe"
    /\ call.save_file /\ call.copy_to_clip
    /\ pc = "done"

\* C2: with no API key passed and none in the environment, configuration
\* raises before the service is called: the run makes no service call, sends
\* no request and writes neither a file nor the clipboard.
C2_NoApiKeyNoServiceCall ==
    (apiKeyEnv = None /\ call.api_key = None) =>
        /\ serviceCalls = 0
        /\ ~request.sent
        /\ pc # "transcribed"
        /\ NothingWritten
        /\ (pc = "done" /\ stt # Blank => error = "RuntimeError")

C2_Witness ==
    /\ apiKeyEnv = None /\ call.api_key = None
    /\ call.entry = "speech_to_text"
    /\ stt # Blank
    /\ pc = "done" /\ error = "RuntimeError"

\* C3: two successful runs on the same source file leave two distinct output
\* files: no two completed saves of one source share a file name, whatever
\* the time between them.
C3_RepeatedRunsDistinctFiles ==
    \A i, j \in 1..Len(saved) :
        (i < j /\ saved[i].completed /\ saved[j].completed)
            => saved[i].name # saved[j].name

\* C4: after a successful run of main the output file is written and a
\* rendering of the transcription is on the clipboard.
C4_MainSuccessWritesFileAndClipboard ==
    (call.entry = "main" /\ call.dialog = "chosen" /\ pc = "done" /\ outcome = "returned") =>
        /\ fileWrites >= 1
        /\ clipWrites >= 1

\* C5: a cancelled dialog makes select_file return nothing, and main returns
\* normally through its 'No file selected' branch without an instance, a
\* service call or a write; a chosen file is returned as its path.
C5_CancelReturnsNormally ==
    /\ call.dialog = "cancelled" =>
            /\ pc = "done"
            /\ outcome = "returned"
            /\ error = "none"
            /\ stt = Blank
            /\ serviceCalls = 0
            /\ NothingWritten
    /\ call.dialog = "chosen" => call.path \in Paths

C7_OneLinePerItemInOrder ==
    (SavedThisRun /\ LastSave.completed) =>
        LET content == ContentSection(files[LastSave.name])
            items == IF stt.single_speaker THEN sentencesReply.items
                     ELSE stt.transcript.utterances.items
        IN  /\ Len(content) = Len(items)
            /\ \A i \in 1..Len(items) :
                   content[i] = (IF stt.single_speaker THEN items[i].text
                                 ELSE "Speaker " \o items[i].speaker \o ": " \o items[i].text)

C7_Witness ==
    /\ SavedThisRun /\ LastSave.completed
    /\ ~stt.single_speaker
    /\ stt.summarization_result # None
    /\ Len(stt.transcript.utterances.items) >= 2
    /\ stt.transcript.utterances.items[1] # stt.transcript.utterances.items[2]

\* C8: the request descriptor carries the language code and the speaker-label
\* flag always and, with summarization enabled, the summary model, the
\* summary type and the guiding question; with summarization disabled it
\* carries no summarization field.
C8_DescriptorCarriesEveryOption ==
    request.sent =>
        LET config == request.config
        IN  /\ config.language_code = stt.language
            /\ config.speaker_labels = stt.speaker_labels
            /\ stt.summarization =>
                   /\ "summary_model" \in DOMAIN config
                   /\ config.summary_model = stt.summarization_model
                   /\ "summary_type" \in DOMAIN config
                   /\ config.summary_type = stt.summarization_type
                   /\ stt.summarization_question # None =>
                          \E k \in DOMAIN config \ {"speaker_labels", "summarization"} :
                              config[k] = stt.summarization_question
            /\ ~stt.summarization => DOMAIN config = {"language_code", "speaker_labels"}

\* C9: a source path that does not exist ends the run in the constructor
\* with FileNotFoundError: no service call, no file, no Transcription folder,
\* no clipboard write.
C9_MissingSourceFails ==
    (pc # "idle" /\ call.path \in Paths \ ExistingPaths) =>
        /\ pc = "done"
        /\ error = "FileNotFoundError"
        /\ stt = Blank
        /\ serviceCalls = 0
        /\ ~request.sent
        /\ ~folderExists
        /\ NothingWritten

C9_Witness ==
    /\ call.entry = "quick_transcribe"
    /\ call.path \in Paths \ ExistingPaths
    /\ call.save_file /\ call.copy_to_clip
    /\ pc = "done" /\ error = "FileNotFoundError"

\* C10: a file is in the folder only when save_to_text_file completed: every
\* file ends with the footer, and a save that raised left no file behind.
C10_NoPartialFile ==
    /\ \A n \in DOMAIN files :
           /\ Len(files[n]) >= 3
           /\ SubSeq(files[n], Len(files[n]) - 2, Len(files[n]))
                  = << Rule, "End of transcription", Rule >>
    /\ \A i \in 1..Len(saved) :
           (~saved[i].completed /\ \A j \in 1..Len(saved) : saved[j].name = saved[i].name => ~saved[j].completed)
               => saved[i].name \notin DOMAIN files

====
